---- MODULE Spec2Model ----
(***************************************************************************)
(* A model of the quadtree of src/src/lib.rs: one Quadtree value built by  *)
(* with_options, changed by put and read by query.                         *)
(*                                                                         *)
(* Coordinates are f64 in the source.  The model uses integers, which      *)
(* stand for f64 values on which +, / 2.0 and the comparisons are exact    *)
(* (small integers); widths and heights of roots are even, so that the     *)
(* halves subdivide computes are integers too.  Rounding of large or       *)
(* fractional f64 values is outside the model.                             *)
(***************************************************************************)
EXTENDS Integers, Sequences, FiniteSets

\* The number of puts within the root bounds a behaviour makes (puts
\* outside them change nothing and are not counted).
MaxPuts == 4

\* Options.depth and Options.max_depth are u8.
U8Max == 255

VARIABLES
    qt,        \* the Quadtree value (the root node, owning its children)
    inserted,  \* the items put within the root bounds, in call order
    last,      \* the last call made on qt: its operation, argument and result
    panicked   \* the thread has panicked inside put (arithmetic overflow)

vars == <<qt, inserted, last, panicked>>

----------------------------------------------------------------------------
(* Values *)

\* Option::None of `children`; Some(c) is the 4-tuple c itself.
None == <<>>

Point(x, y) == [x |-> x, y |-> y]

\* An Item: a point and a reference to the caller's data (here the ordinal
\* of the item among the puts within the root bounds, so that the items a
\* tree holds are told apart).
Item(point, data) == [point |-> point, data |-> data]

position(item) == item.point

Rectangle(x, y, width, height) ==
    [x |-> x, y |-> y, width |-> width, height |-> height]

Options(max_items, max_depth, depth) ==
    [max_items |-> max_items, max_depth |-> max_depth, depth |-> depth]

DefaultOptions == Options(20, 3, 0)

with_options(boundary, options) ==
    [x |-> boundary.x, y |-> boundary.y,
     width |-> boundary.width, height |-> boundary.height,
     items |-> <<>>, children |-> None, options |-> options]

new(boundary) == with_options(boundary, DefaultOptions)

bounds(self) == Rectangle(self.x, self.y, self.width, self.height)

----------------------------------------------------------------------------
(* Geometry predicates *)

\* _contains with the far edges left out (a faulty variant of _contains).
_contains_HalfOpen(point, boundary) ==
    /\ point.x >= boundary.x
    /\ point.x < boundary.x + boundary.width
    /\ point.y >= boundary.y
    /\ point.y < boundary.y + boundary.height

_contains(point, boundary) ==
    /\ point.x >= boundary.x
    /\ point.x <= boundary.x + boundary.width
    /\ point.y >= boundary.y
    /\ point.y <= boundary.y + boundary.height

contains(self, item) == _contains(position(item), bounds(self))

\* intersects with the rectangle's width and height forgotten on its far
\* sides (a faulty variant of intersects).
intersects_NoExtent(rectangle, boundary) ==
    /\ rectangle.x < boundary.x + boundary.width
    /\ rectangle.x > boundary.x
    /\ rectangle.y < boundary.y + boundary.height
    /\ rectangle.y > boundary.y

intersects(rectangle, boundary) ==
    /\ rectangle.x < boundary.x + boundary.width
    /\ rectangle.x + rectangle.width > boundary.x
    /\ rectangle.y < boundary.y + boundary.height
    /\ rectangle.y + rectangle.height > boundary.y

----------------------------------------------------------------------------
(* subdivide *)

\* width / 2.0: exact on the even values the model uses.
Half(v) == v \div 2

\* self.options.depth + 1 on u8 with overflow checks off (release builds):
\* the sum wraps.
ChildDepth(self) == (self.options.depth + 1) % (U8Max + 1)

\* self.options.depth + 1 overflows u8: with overflow checks on (debug
\* builds) subdivide panics instead of returning.
DepthOverflows(self) == self.options.depth + 1 > U8Max

subdivide(self) ==
    LET w == Half(self.width)
        h == Half(self.height)
        o == Options(self.options.max_items, self.options.max_depth, ChildDepth(self))
    IN  << with_options(Rectangle(self.x, self.y, w, h), o),
           with_options(Rectangle(self.x + w, self.y, w, h), o),
           with_options(Rectangle(self.x + w, self.y + h, w, h), o),
           with_options(Rectangle(self.x, self.y + h, w, h), o) >>

----------------------------------------------------------------------------
(* put *)

\* The loop keeping the last match, not the first (a faulty variant of
\* FirstChild).
FirstChild_Last(children, item) ==
    LET S == {i \in 1..4 : contains(children[i], item)}
    IN  IF S = {} THEN 0 ELSE CHOOSE i \in S : \A j \in S : i >= j

\* The `for child in children { if child.contains(&item) { ...; break } }`
\* loop: the index of the first child that contains the item, 0 when the
\* loop ends without a match.
FirstChild(children, item) ==
    LET S == {i \in 1..4 : contains(children[i], item)}
    IN  IF S = {} THEN 0 ELSE CHOOSE i \in S : \A j \in S : i <= j

\* The loop without its `break`: every child that contains the item gets
\* it (a faulty variant of PushToChild).
PushToChild_NoBreak(children, item) ==
    [i \in 1..4 |-> IF contains(children[i], item)
                     THEN [children[i] EXCEPT !.items = Append(@, item)]
                     ELSE children[i]]

\* The loop's effect: the item is pushed onto the first matching child's
\* list; without a match it is dropped.
PushToChild(children, item) ==
    LET i == FirstChild(children, item)
    IN  IF i = 0 THEN children
        ELSE [children EXCEPT ![i].items = Append(@, item)]

\* The drain taking the items from the front of the list (a faulty variant of
\* Drain).
RECURSIVE Drain_FromFront(_, _)
Drain_FromFront(items, children) ==
    IF items = <<>> THEN children
    ELSE Drain_FromFront(Tail(items), PushToChild(children, Head(items)))

\* The drain with `if let` for `while let`: only the last item moves (a
\* faulty variant of Drain).
Drain_OnlyLast(items, children) ==
    IF items = <<>> THEN children
    ELSE PushToChild(children, items[Len(items)])

\* `while let Some(it) = self.items.pop() { ... }`: the items leave the
\* list from its end.
RECURSIVE Drain(_, _)
Drain(items, children) ==
    IF items = <<>> THEN children
    ELSE Drain(SubSeq(items, 1, Len(items) - 1),
               PushToChild(children, items[Len(items)]))

\* The condition of lines 155-157: a leaf with room, below max_depth.
HasRoom(self) ==
    /\ self.children = None
    /\ Len(self.items) < self.options.max_items
    /\ self.options.depth < self.options.max_depth

\* The Some arm handing the item to the child's own put, which applies the
\* child's capacity and depth check (a faulty variant of put_Some).
RECURSIVE put_Some_ChildPut(_, _)
put_Some_ChildPut(self, item) ==
    LET i == FirstChild(self.children, item)
        child == self.children[i]
    IN  IF i = 0 THEN self
        ELSE IF HasRoom(child)
             THEN [self EXCEPT !.children[i].items = Append(@, item)]
        ELSE IF child.children # None
             THEN [self EXCEPT !.children[i] = put_Some_ChildPut(child, item)]
        ELSE [self EXCEPT !.children[i] =
                 [child EXCEPT !.items = <<>>,
                               !.children = Drain(Append(child.items, item),
                                                  subdivide(child))]]

\* Lines 164-171: the item goes to the first child that contains it.
put_Some(self, item) == [self EXCEPT !.children = PushToChild(@, item)]

\* The None arm with the node's list left as it was: the items are copied
\* to the children, not popped (a faulty variant of put_None).
put_None_KeepsItems(self, item) ==
    [self EXCEPT !.items = Append(@, item),
                 !.children = Drain(Append(self.items, item), subdivide(self))]

\* Lines 172-184: the item is pushed, the node subdivides, its list is
\* drained into the children (which leaves it empty) and the children are
\* attached.
put_None(self, item) ==
    [self EXCEPT !.items = <<>>,
                 !.children = Drain(Append(self.items, item), subdivide(self))]

\* put without the early return of lines 151-153 (a faulty variant of put).
put_NoBoundsCheck(self, item) ==
    IF HasRoom(self) THEN [self EXCEPT !.items = Append(@, item)]
    ELSE IF self.children # None THEN put_Some(self, item)
    ELSE put_None(self, item)

put(self, item) ==
    IF ~contains(self, item) THEN self
    ELSE IF HasRoom(self) THEN [self EXCEPT !.items = Append(@, item)]
    ELSE IF self.children # None THEN put_Some(self, item)
    ELSE put_None(self, item)

\* The put reaches subdivide (line 174).
Subdivides(self, item) ==
    contains(self, item) /\ ~HasRoom(self) /\ self.children = None

----------------------------------------------------------------------------
(* query *)

RECURSIVE query(_, _)
query(self, range) ==
    IF self.children # None
    THEN IF intersects(range, bounds(self))
         THEN query(self.children[1], range) \o query(self.children[2], range)
              \o query(self.children[3], range) \o query(self.children[4], range)
         ELSE <<>>
    ELSE SelectSeq(self.items, LAMBDA item : _contains(position(item), range))

----------------------------------------------------------------------------
(* The callers' inputs *)

\* Root rectangles: a square, one of zero width, one of negative width.
Boundaries ==
    { Rectangle(0, 0, 4, 4), Rectangle(0, 0, 0, 4), Rectangle(0, 0, -4, 4) }

\* Options values: the default, capacities 1 and 2 below the depth
\* ceiling, a root already at max_depth, and a root at the top of u8.
OptionsValues ==
    { DefaultOptions, Options(1, 3, 0), Options(2, 3, 0),
      Options(1, 0, 0), Options(1, U8Max, U8Max) }

\* Positions, named by where they lie in the root (0, 0, 4, 4): outside,
\* inside each quadrant, on the root's left edge where two quadrants meet,
\* and on the centre, where all four meet.
Points ==
    { Point(-1, 1), Point(0, 2),
      Point(1, 1), Point(3, 1), Point(3, 3), Point(1, 3),
      Point(2, 2) }

\* Query rectangles: the square root, a quadrant of it, a rectangle inside
\* it, one of zero size, one that touches it along its left edge only,
\* one apart from it.  (A query may also ask for the root's own bounds.)
Ranges ==
    { Rectangle(0, 0, 4, 4), Rectangle(0, 0, 2, 2), Rectangle(1, 1, 2, 2),
      Rectangle(2, 2, 0, 0), Rectangle(-2, 0, 2, 4), Rectangle(5, 5, 1, 1) }

\* The point lies in the rectangle, edges included.
Within(point, rect) ==
    /\ rect.x <= point.x /\ point.x <= rect.x + rect.width
    /\ rect.y <= point.y /\ point.y <= rect.y + rect.height

----------------------------------------------------------------------------
(* The state machine *)

Init ==
    /\ \E boundary \in Boundaries, options \in OptionsValues :
           qt = with_options(boundary, options)
    /\ inserted = <<>>
    /\ last = [op |-> "with_options", arg |-> <<>>, ret |-> <<>>]
    /\ panicked = FALSE

\* What a put call leaves in the history variables.
Called(item) ==
    /\ inserted' = IF Within(item.point, bounds(qt)) THEN Append(inserted, item)
                   ELSE inserted
    /\ last' = [op |-> "put", arg |-> item, ret |-> <<>>]

\* qt.put(item), returning.
Put(item) ==
    /\ ~panicked
    /\ Within(item.point, bounds(qt)) => Len(inserted) < MaxPuts
    /\ ~ (Subdivides(qt, item) /\ DepthOverflows(qt))
    /\ qt' = put(qt, item)
    /\ Called(item)
    /\ UNCHANGED panicked

\* qt.put(item) where subdivide's depth + 1 overflows u8.  The item is
\* already pushed (line 173).  With overflow checks the thread panics
\* there; without them the sum wraps and put goes on.
PutOverflow(item, overflow_checks) ==
    /\ ~panicked
    /\ Len(inserted) < MaxPuts
    /\ Subdivides(qt, item) /\ DepthOverflows(qt)
    /\ IF overflow_checks
       THEN /\ qt' = [qt EXCEPT !.items = Append(@, item)]
            /\ panicked' = TRUE
       ELSE /\ qt' = put(qt, item)
            /\ panicked' = FALSE
    /\ Called(item)

\* qt.query(range).
Query(range) ==
    /\ ~panicked
    /\ last' = [op |-> "query", arg |-> range, ret |-> query(qt, range)]
    /\ UNCHANGED <<qt, inserted, panicked>>

Next ==
    \/ \E point \in Points : Put(Item(point, Len(inserted) + 1))
    \/ \E point \in Points, overflow_checks \in BOOLEAN :
           PutOverflow(Item(point, Len(inserted) + 1), overflow_checks)
    \/ \E range \in Ranges \cup {bounds(qt)} : Query(range)

Spec == Init /\ [][Next]_vars

----------------------------------------------------------------------------
(* Vocabulary of the properties *)

\* The point lies in the rectangle and on none of its edges.
StrictlyInside(point, rect) ==
    /\ rect.x < point.x /\ point.x < rect.x + rect.width
    /\ rect.y < point.y /\ point.y < rect.y + rect.height

\* The elements of a sequence.
Elems(seq) == {seq[k] : k \in 1..Len(seq)}

\* How often a value occurs in a sequence.
Count(seq, v) == Cardinality({k \in 1..Len(seq) : seq[k] = v})

IsLeaf(node) == node.children = None

\* The node is above the depth at which max_depth stops subdivision.
BelowCeiling(node) == node.options.depth < node.options.max_depth

\* The two rectangles overlap in more than an edge or a corner.
Overlap(a, b) ==
    /\ a.x < b.x + b.width /\ b.x < a.x + a.width
    /\ a.y < b.y + b.height /\ b.y < a.y + a.height

\* The items put within the root bounds whose position lies in the range.
InsertedIn(range) == {it \in Elems(inserted) : Within(it.point, range)}

\* Quadrant i of a rectangle, in the order top-left, top-right,
\* bottom-right, bottom-left.
Quadrant(rect, i) ==
    LET w == rect.width \div 2
        h == rect.height \div 2
    IN  CASE i = 1 -> Rectangle(rect.x, rect.y, w, h)
          [] i = 2 -> Rectangle(rect.x + w, rect.y, w, h)
          [] i = 3 -> Rectangle(rect.x + w, rect.y + h, w, h)
          [] i = 4 -> Rectangle(rect.x, rect.y + h, w, h)

\* The first quadrant, in that order, that the point lies in (0: none).
FirstQuadrant(rect, point) ==
    IF \E i \in 1..4 : Within(point, Quadrant(rect, i))
    THEN CHOOSE i \in 1..4 :
             /\ Within(point, Quadrant(rect, i))
             /\ \A j \in 1..(i - 1) : ~Within(point, Quadrant(rect, j))
    ELSE 0

\* The items every list of a tree holds, the node's own list first.
RECURSIVE Stored(_)
Stored(node) ==
    IF IsLeaf(node) THEN node.items
    ELSE node.items \o Stored(node.children[1]) \o Stored(node.children[2])
                    \o Stored(node.children[3]) \o Stored(node.children[4])

\* Two items are in the list of the same leaf of qt.
SameLeaf(a, b) ==
    IF IsLeaf(qt) THEN {a, b} \subseteq Elems(qt.items)
    ELSE \E i \in 1..4 : {a, b} \subseteq Elems(qt.children[i].items)

\* The place of an item in the order of the in-bounds puts.
Ord(item) == CHOOSE k \in 1..Len(inserted) : inserted[k] = item

\* The nodes of a tree: the node and, below it, its children's nodes.
RECURSIVE Nodes(_)
Nodes(node) ==
    IF IsLeaf(node) THEN {node}
    ELSE {node} \cup Nodes(node.children[1]) \cup Nodes(node.children[2])
                \cup Nodes(node.children[3]) \cup Nodes(node.children[4])

----------------------------------------------------------------------------
(* C1 *)

\* C1: an item put at a point strictly inside the root bounds is returned
\* by every later query whose rectangle contains the point (edges
\* included), whether the root is a leaf or has split.
C1_PutThenQueryFinds ==
    last.op = "query" =>
        \A i \in 1..Len(inserted) :
            ( /\ StrictlyInside(inserted[i].point, bounds(qt))
              /\ Within(inserted[i].point, last.arg) )
            => inserted[i] \in Elems(last.ret)

\* A query on a split root whose rectangle is a single point returns the
\* item put at that point, strictly inside the root.
C1_Witness ==
    /\ last.op = "query"
    /\ ~IsLeaf(qt)
    /\ last.arg = Rectangle(2, 2, 0, 0)
    /\ \E i \in 1..Len(inserted) :
           /\ StrictlyInside(inserted[i].point, bounds(qt))
           /\ Within(inserted[i].point, last.arg)
           /\ inserted[i] \in Elems(last.ret)

----------------------------------------------------------------------------
(* C2 *)

\* C2: a put of an item whose position is not within the root bounds
\* changes nothing: not the root's list, not the presence of children, no
\* child's list, and so no query result.
C2_OutOfBoundsPutIsNoOp ==
    [][ ( /\ last'.op = "put"
          /\ ~Within(last'.arg.point, bounds(qt)) )
        => ( /\ qt'.items = qt.items
             /\ IsLeaf(qt') = IsLeaf(qt)
             /\ ~IsLeaf(qt) =>
                    \A i \in 1..4 : qt'.children[i].items = qt.children[i].items
             /\ \A range \in Ranges : query(qt', range) = query(qt, range) )
      ]_vars

\* An out-of-bounds put has been made on a root that has split and holds
\* items.
C2_Witness ==
    /\ last.op = "put"
    /\ ~Within(last.arg.point, bounds(qt))
    /\ ~IsLeaf(qt)
    /\ inserted # <<>>

----------------------------------------------------------------------------
(* C3 *)

\* C3, as claimed: whatever the root rectangle and the Options, a query
\* with the root bounds as its range returns every item put within the
\* root bounds.  (Stated for roots below max_depth, which split on
\* capacity alone: the claim fails there already.)
C3_FullBoundsQueryReturnsAll ==
    (BelowCeiling(qt) /\ last.op = "query" /\ last.arg = bounds(qt))
    => Elems(inserted) \subseteq Elems(last.ret)

\* C3, amended: the same for a root rectangle of positive width and
\* height, and for any root that has not split; a split root of zero
\* width or height returns nothing for its own bounds.
C3_FullBoundsQueryReturnsAll_Amended ==
    (last.op = "query" /\ last.arg = bounds(qt))
    => IF IsLeaf(qt) \/ (qt.width > 0 /\ qt.height > 0)
       THEN Elems(inserted) \subseteq Elems(last.ret)
       ELSE last.ret = <<>>

\* A split root of positive width and height has been queried with its
\* own bounds and has returned its three items.
C3_Witness ==
    /\ last.op = "query" /\ last.arg = bounds(qt)
    /\ ~IsLeaf(qt) /\ qt.width > 0 /\ qt.height > 0
    /\ Len(inserted) = 3
    /\ Elems(inserted) \subseteq Elems(last.ret)

----------------------------------------------------------------------------
(* C4 *)

\* C4, as claimed: a query returns exactly the items put within the root
\* bounds whose position lies in the range, edges included, each once,
\* whether the root is a leaf or has split.  (Stated for roots below
\* max_depth and of positive width and height: the claim fails there
\* already.)
C4_QueryIsExact ==
    (BelowCeiling(qt) /\ qt.width > 0 /\ qt.height > 0 /\ last.op = "query") =>
        /\ Elems(last.ret) = InsertedIn(last.arg)
        /\ Len(last.ret) = Cardinality(InsertedIn(last.arg))

\* C4, amended: that is what a leaf root returns for every range, and what
\* a split root returns for every range that overlaps the root bounds in
\* more than an edge or a corner; for any other range a split root returns
\* nothing, also when an item on the root's edge lies in the range.
C4_QueryIsExact_Amended ==
    last.op = "query" =>
        IF IsLeaf(qt) \/ Overlap(last.arg, bounds(qt))
        THEN /\ Elems(last.ret) = InsertedIn(last.arg)
             /\ Len(last.ret) = Cardinality(InsertedIn(last.arg))
        ELSE last.ret = <<>>

\* A split root has answered a range that holds some of its items and not
\* others, with exactly the former.
C4_Witness ==
    /\ last.op = "query"
    /\ ~IsLeaf(qt)
    /\ Overlap(last.arg, bounds(qt))
    /\ InsertedIn(last.arg) # {}
    /\ InsertedIn(last.arg) # Elems(inserted)
    /\ Elems(last.ret) = InsertedIn(last.arg)

----------------------------------------------------------------------------
(* C5 *)

\* C5: every node has no children, or four children and an empty list of
\* its own; once the root has split, its own list is empty.
C5_ItemsOrChildren ==
    /\ \A node \in Nodes(qt) :
           IsLeaf(node) \/ (Len(node.children) = 4 /\ node.items = <<>>)
    /\ ~IsLeaf(qt) => qt.items = <<>>

\* The root has split on its second item and has taken a put since.
C5_Witness ==
    /\ ~IsLeaf(qt)
    /\ qt.options.max_items = 1
    /\ qt.options.depth < qt.options.max_depth
    /\ Len(inserted) = 3
    /\ last.op = "put" /\ Within(last.arg.point, bounds(qt))

----------------------------------------------------------------------------
(* C6 *)

\* C6: a node whose depth equals max_depth, the root included, never gets
\* children, and such a root keeps every in-bounds item in its own list.
\* (Stated for roots of positive width and height: the claim fails there
\* already.)
C6_DepthCeiling ==
    (qt.width > 0 /\ qt.height > 0) =>
        \A node \in Nodes(qt) :
            node.options.depth = node.options.max_depth
            => /\ IsLeaf(node)
               /\ node = qt => node.items = inserted

----------------------------------------------------------------------------
(* C7 *)

\* C7: every item put within the root bounds is in exactly one list of the
\* tree, once; the lists hold as many items as there were in-bounds puts;
\* and no query returns an item twice.
C7_StoredExactlyOnce ==
    /\ \A it \in Elems(inserted) : Count(Stored(qt), it) = 1
    /\ Len(Stored(qt)) = Len(inserted)
    /\ last.op = "query" => \A it \in Elems(last.ret) : Count(last.ret, it) = 1

\* A split root holds an item on the centre, which all four children
\* contain, and one on the edge two of them share, and a query over the
\* root bounds has returned both.
C7_Witness ==
    /\ ~IsLeaf(qt)
    /\ \E a, b \in Elems(inserted) :
           /\ a.point = Point(2, 2) /\ b.point = Point(0, 2)
           /\ Cardinality({i \in 1..4 : Within(a.point, bounds(qt.children[i]))}) = 4
           /\ Cardinality({i \in 1..4 : Within(b.point, bounds(qt.children[i]))}) = 2
           /\ last.op = "query"
           /\ {a, b} \subseteq Elems(last.ret)

----------------------------------------------------------------------------
(* C8 *)

\* What C8 says of one in-bounds put on a root below max_depth, by the
\* number k of in-bounds puts made before it.
C8_Step ==
    LET item == last'.arg
        k == Len(inserted)
        m == qt.options.max_items
        b == bounds(qt)
    IN  ( /\ last'.op = "put" /\ inserted' # inserted
          /\ BelowCeiling(qt)
          /\ Within(item.point, b) )
        => CASE k < m ->
                  /\ qt'.items = Append(qt.items, item)
                  /\ IsLeaf(qt')
             [] k = m ->
                  /\ IsLeaf(qt) /\ ~IsLeaf(qt')
                  /\ Len(qt'.children) = 4
                  /\ qt'.items = <<>>
                  /\ \A i \in 1..4 :
                        LET mine == {it \in Elems(inserted') :
                                        FirstQuadrant(b, it.point) = i}
                        IN  /\ Elems(qt'.children[i].items) = mine
                            /\ Len(qt'.children[i].items) = Cardinality(mine)
             [] k > m ->
                  /\ ~IsLeaf(qt) /\ ~IsLeaf(qt')
                  /\ qt'.items = <<>>
                  /\ \A i \in 1..4 :
                        qt'.children[i].items =
                            IF FirstQuadrant(b, item.point) = i
                            THEN Append(qt.children[i].items, item)
                            ELSE qt.children[i].items

\* The four in-bounds puts so far were one strictly inside each quadrant.
OnePerQuadrant ==
    /\ Len(inserted) = 4
    /\ \A i \in 1..4 :
           Cardinality({k \in 1..4 :
               StrictlyInside(inserted[k].point, Quadrant(bounds(qt), i))}) = 1

\* The scenario of C8: max_items = 1 and one point in each quadrant.
C8_Scenario ==
    (BelowCeiling(qt) /\ qt.options.max_items = 1 /\ OnePerQuadrant)
    => /\ ~IsLeaf(qt)
       /\ \A i \in 1..4 :
              /\ Len(qt.children[i].items) = 1
              /\ StrictlyInside(qt.children[i].items[1].point, Quadrant(bounds(qt), i))

\* C8: on a root below max_depth, the first max_items in-bounds puts are
\* appended to the root's list and create no children; the next creates
\* the four children and moves every item to the first child, in the
\* order 0, 1, 2, 3, whose bounds contain it; every later one is appended
\* to the first such child.  With max_items = 1 and one point inside each
\* quadrant, each child ends with one item.
C8_PutFillsRootThenChildren == [][C8_Step /\ C8_Scenario']_vars

\* The scenario has happened: four puts, one inside each quadrant, on a
\* root with max_items = 1, and one item in each child.
C8_Witness ==
    /\ BelowCeiling(qt) /\ qt.options.max_items = 1 /\ OnePerQuadrant
    /\ ~IsLeaf(qt)
    /\ \A i \in 1..4 : Len(qt.children[i].items) = 1

----------------------------------------------------------------------------
(* C9 *)

\* The unit squares of the plane around the rectangles of the model, each
\* named by its corner of least coordinates.
Cells == {Point(a, b) : a, b \in -5..5}

\* The unit square lies in the rectangle.
CellIn(cell, rect) ==
    Within(cell, rect) /\ Within(Point(cell.x + 1, cell.y + 1), rect)

\* C9: subdivide returns four children with the bounds (x, y, W/2, H/2),
\* (x+W/2, y, ..), (x+W/2, y+H/2, ..), (x, y+H/2, ..), which cover the
\* parent's bounds without gap or overlap in area; each has the parent's
\* max_items and max_depth, depth = parent depth + 1, no items and no
\* children.
C9_Subdivide ==
    \A node \in Nodes(qt) :
        LET c == subdivide(node)
            b == bounds(node)
        IN  /\ Len(c) = 4
            /\ \A i \in 1..4 :
                   /\ bounds(c[i]) = Quadrant(b, i)
                   /\ c[i].options.max_items = node.options.max_items
                   /\ c[i].options.max_depth = node.options.max_depth
                   /\ c[i].options.depth = node.options.depth + 1
                   /\ c[i].items = <<>>
                   /\ IsLeaf(c[i])
            /\ \A cell \in Cells :
                   Cardinality({i \in 1..4 : CellIn(cell, bounds(c[i]))})
                       = IF CellIn(cell, b) THEN 1 ELSE 0

----------------------------------------------------------------------------
(* C10 *)

\* C10, as claimed: of two items a query returns from the list of the same
\* leaf (the unsplit root or a child of the split root), the one put
\* earlier comes first.
C10_InsertionOrder ==
    last.op = "query" =>
        \A a, b \in 1..Len(last.ret) :
            (a < b /\ SameLeaf(last.ret[a], last.ret[b]))
            => Ord(last.ret[a]) < Ord(last.ret[b])

\* The number of in-bounds puts up to the one that splits the root: the
\* items the root's list holds when it is drained.
DrainedCount ==
    IF BelowCeiling(qt) THEN qt.options.max_items + 1 ELSE 1

\* C10, amended: the unsplit root returns its items in insertion order; a
\* child of the split root returns first the items that were moved to it
\* when the root split, latest put first, and then the items put since,
\* earliest put first.
C10_InsertionOrder_Amended ==
    last.op = "query" =>
        \A a, b \in 1..Len(last.ret) :
            (a < b /\ SameLeaf(last.ret[a], last.ret[b]))
            => LET ia == Ord(last.ret[a])
                   ib == Ord(last.ret[b])
               IN  IF ~IsLeaf(qt) /\ ia <= DrainedCount /\ ib <= DrainedCount
                   THEN ia > ib
                   ELSE ia < ib

\* A query has returned, from one child of the split root, two items the
\* split moved, the later put first, and after them an item put since.
C10_Witness ==
    /\ last.op = "query"
    /\ ~IsLeaf(qt)
    /\ \E a, b, c \in 1..Len(last.ret) :
           /\ a < b /\ b < c
           /\ SameLeaf(last.ret[a], last.ret[b])
           /\ SameLeaf(last.ret[b], last.ret[c])
           /\ Ord(last.ret[a]) = 2 /\ Ord(last.ret[b]) = 1 /\ Ord(last.ret[c]) = 3

----------------------------------------------------------------------------
(* C11 *)

\* The tree is its root alone, or its root and four leaves of depth 1.
TwoLevels(root) ==
    IsLeaf(root) \/
        /\ Len(root.children) = 4
        /\ \A i \in 1..4 :
               IsLeaf(root.children[i]) /\ root.children[i].options.depth = 1

\* C11: on a root of depth 0, whatever max_depth is, no child of the root
\* ever gets children of its own, so the tree stays the root and at most
\* four leaves of depth 1; a put on the split root appends the item to the
\* list of the child that takes it, however many items that list holds
\* already and whatever the child's depth.
C11_ChildrenNeverSplit ==
    [][ qt.options.depth = 0 =>
          /\ TwoLevels(qt')
          /\ ( /\ ~IsLeaf(qt)
               /\ last'.op = "put" /\ inserted' # inserted )
             => \E i \in 1..4 :
                    /\ qt'.children[i].items =
                           Append(qt.children[i].items, last'.arg)
                    /\ \A j \in (1..4) \ {i} :
                           qt'.children[j].items = qt.children[j].items
      ]_vars

\* A child below max_depth that held more than max_items items has taken
\* one more, and is a leaf still.
C11_Witness ==
    /\ qt.options.depth = 0
    /\ ~IsLeaf(qt)
    /\ last.op = "put"
    /\ \E i \in 1..4 :
           /\ BelowCeiling(qt.children[i])
           /\ Len(qt.children[i].items) > qt.options.max_items + 1
           /\ qt.children[i].items[Len(qt.children[i].items)] = last.arg
           /\ IsLeaf(qt.children[i])

====
